---------------------------- MODULE Spec2Model ----------------------------
(***************************************************************************)
(* A model of the Hacker News -> Slack "daily AI updates" bot              *)
(* (src/unnamed/part_001, the latest revision of index.mjs).               *)
(*                                                                         *)
(* Strings are sequences of one-character strings, so that includes(),     *)
(* startsWith(), toLowerCase() and the regular expression /\bai\b/i are    *)
(* computed character by character, as the JavaScript runtime does.        *)
(***************************************************************************)
EXTENDS Integers, Sequences, FiniteSets, TLC

\* ------------------------------------------------------------------------
\* Bounds of the model
\* ------------------------------------------------------------------------

\* Largest number of vocabulary fragments concatenated into a scored title.
MaxFrags == 3

\* Largest number of item records in a ranked input list.
MaxItems == 3

\* Largest number of identifiers the content API serves in one run.
MaxIds == 2

\* The wall clock of the run, in unix seconds (Date.now() / 1000).
Now == 200000

\* ------------------------------------------------------------------------
\* Strings
\* ------------------------------------------------------------------------

Min(a, b) == IF a <= b THEN a ELSE b

\* An optional string: item.title / item.url may be missing from the JSON.
NoStr == [has |-> FALSE, s |-> <<>>]

Some(s) == [has |-> TRUE, s |-> s]

\* A default parameter (title = '', url = ''): undefined becomes ''.
DefaultEmpty(o) == IF o.has THEN o.s ELSE <<>>

\* String.prototype.toLowerCase on the characters the model uses.
LowerChar(c) ==
  CASE c = "A" -> "a"
    [] c = "I" -> "i"
    [] c = "O" -> "o"
    [] c = "W" -> "w"
    [] OTHER -> c

ToLowerCase(s) == [k \in 1..Len(s) |-> LowerChar(s[k])]

\* String.prototype.includes: pat occurs in text as a contiguous substring.
Includes(text, pat) ==
  \E p \in 1..(Len(text) - Len(pat) + 1) : SubSeq(text, p, p + Len(pat) - 1) = pat

\* String.prototype.startsWith.
StartsWith(text, pat) ==
  Len(pat) <= Len(text) /\ SubSeq(text, 1, Len(pat)) = pat

\* The regular expression class \w (without the u flag): [A-Za-z0-9_].
RegexWordChars ==
  { "a", "b", "c", "d", "e", "f", "g", "h", "i", "j", "k", "l", "m",
    "n", "o", "p", "q", "r", "s", "t", "u", "v", "w", "x", "y", "z",
    "A", "B", "C", "D", "E", "F", "G", "H", "I", "J", "K", "L", "M",
    "N", "O", "P", "Q", "R", "S", "T", "U", "V", "W", "X", "Y", "Z",
    "0", "1", "2", "3", "4", "5", "6", "7", "8", "9", "_" }

IsWordChar(c) == c \in RegexWordChars

\* The assertion \b between positions p-1 and p of text (p in 1..Len+1):
\* exactly one of the two neighbours is a \w character.
WordBoundary(text, p) ==
  LET before == p > 1 /\ IsWordChar(text[p - 1])
      after  == p <= Len(text) /\ IsWordChar(text[p])
  IN  before # after

\* /\bai\b/i.test(text)
AiRegexTest(text) ==
  \E p \in 1..(Len(text) - 1) :
    /\ LowerChar(text[p]) = "a"
    /\ LowerChar(text[p + 1]) = "i"
    /\ WordBoundary(text, p)
    /\ WordBoundary(text, p + 2)

\* ------------------------------------------------------------------------
\* Relevance scorer
\* ------------------------------------------------------------------------

strongSignals ==
  << <<"g", "p", "t", "-">>, <<"c", "h", "a", "t", "g", "p", "t">>, <<"o", "p", "e", "n", "a", "i">>, <<"a", "n", "t", "h", "r", "o", "p", "i", "c">>, <<"c", "l", "a", "u", "d", "e">>,
     <<"l", "l", "m">>, <<"l", "a", "r", "g", "e", " ", "l", "a", "n", "g", "u", "a", "g", "e", " ", "m", "o", "d", "e", "l">>, <<"g", "e", "m", "i", "n", "i">>, <<"m", "i", "s", "t", "r", "a", "l">>, <<"l", "l", "a", "m", "a">>,
     <<"p", "e", "r", "p", "l", "e", "x", "i", "t", "y">>, <<"m", "i", "d", "j", "o", "u", "r", "n", "e", "y">>, <<"d", "a", "l", "l", "-", "e">>, <<"s", "o", "r", "a">>, <<"r", "u", "n", "w", "a", "y">>,
     <<"c", "u", "r", "s", "o", "r">>, <<"g", "i", "t", "h", "u", "b", " ", "c", "o", "p", "i", "l", "o", "t">>, <<"a", "i", " ", "c", "o", "p", "i", "l", "o", "t">>,
     <<"a", "r", "t", "i", "f", "i", "c", "i", "a", "l", " ", "i", "n", "t", "e", "l", "l", "i", "g", "e", "n", "c", "e">>, <<"g", "e", "n", "e", "r", "a", "t", "i", "v", "e", " ", "a", "i">>, <<"g", "e", "n", " ", "a", "i">>,
     <<"a", "i", " ", "t", "o", "o", "l">>, <<"a", "i", " ", "a", "p", "p">>, <<"a", "i", " ", "p", "l", "a", "t", "f", "o", "r", "m">>, <<"a", "i", " ", "a", "g", "e", "n", "t">>, <<"a", "i", " ", "a", "s", "s", "i", "s", "t", "a", "n", "t">> >>

mediumSignals ==
  << <<"a", "i", " ", "u", "p", "d", "a", "t", "e">>, <<"a", "i", " ", "r", "e", "l", "e", "a", "s", "e">>, <<"a", "i", " ", "l", "a", "u", "n", "c", "h">>, <<"a", "i", " ", "a", "n", "n", "o", "u", "n", "c", "e", "m", "e", "n", "t">>,
     <<"m", "u", "l", "t", "i", "m", "o", "d", "a", "l">>, <<"a", "u", "t", "o", "n", "o", "m", "o", "u", "s", " ", "a", "g", "e", "n", "t">>, <<"r", "e", "a", "s", "o", "n", "i", "n", "g">> >>

weakSignals ==
  << <<"a", "i">>, <<"m", "a", "c", "h", "i", "n", "e", " ", "l", "e", "a", "r", "n", "i", "n", "g">>, <<"m", "l">>, <<"d", "e", "e", "p", " ", "l", "e", "a", "r", "n", "i", "n", "g">> >>

StrongPoints == 30

MediumPoints == 15

WeakPoints == 5

MaxScore == 100

RelevanceThreshold == 10

RECURSIVE StrongLoopNoReturn(_, _, _)
\* The strong-signal loop without its early return (a plausible slip).
StrongLoopNoReturn(text, k, score) ==
  IF k > Len(strongSignals)
    THEN [returned |-> FALSE, score |-> score]
    ELSE IF Includes(text, ToLowerCase(strongSignals[k]))
           THEN StrongLoopNoReturn(text, k + 1, score + StrongPoints)
           ELSE StrongLoopNoReturn(text, k + 1, score)

RECURSIVE StrongLoop(_, _, _)
\* for (const signal of strongSignals): from signal k on, with the score so
\* far; returned = the function returned from inside the loop.
StrongLoop(text, k, score) ==
  IF k > Len(strongSignals)
    THEN [returned |-> FALSE, score |-> score]
    ELSE IF Includes(text, ToLowerCase(strongSignals[k]))
           THEN IF score + StrongPoints >= 30
                  THEN [returned |-> TRUE, score |-> Min(MaxScore, score + StrongPoints)]
                  ELSE StrongLoop(text, k + 1, score + StrongPoints)
           ELSE StrongLoop(text, k + 1, score)

RECURSIVE MediumLoop(_, _, _)
\* for (const signal of mediumSignals): every signal is checked and summed.
MediumLoop(text, k, score) ==
  IF k > Len(mediumSignals)
    THEN score
    ELSE IF Includes(text, ToLowerCase(mediumSignals[k]))
           THEN MediumLoop(text, k + 1, score + MediumPoints)
           ELSE MediumLoop(text, k + 1, score)

RECURSIVE WeakLoopAiTwice(_, _, _)
\* The weak-signal loop with the else of the 'ai' branch missing: a text in
\* which the regular expression matches is counted again by includes().
WeakLoopAiTwice(text, k, score) ==
  IF k > Len(weakSignals)
    THEN score
    ELSE LET first == IF weakSignals[k] = <<"a", "i">> /\ AiRegexTest(text)
                        THEN score + WeakPoints
                        ELSE score
         IN  IF Includes(text, ToLowerCase(weakSignals[k]))
               THEN WeakLoopAiTwice(text, k + 1, first + WeakPoints)
               ELSE WeakLoopAiTwice(text, k + 1, first)

RECURSIVE WeakLoop(_, _, _)
\* for (const signal of weakSignals): 'ai' goes through the regular
\* expression, the other signals through includes().
WeakLoop(text, k, score) ==
  IF k > Len(weakSignals)
    THEN score
    ELSE IF weakSignals[k] = <<"a", "i">>
           THEN IF AiRegexTest(text)
                  THEN WeakLoop(text, k + 1, score + WeakPoints)
                  ELSE WeakLoop(text, k + 1, score)
           ELSE IF Includes(text, ToLowerCase(weakSignals[k]))
                  THEN WeakLoop(text, k + 1, score + WeakPoints)
                  ELSE WeakLoop(text, k + 1, score)

\* const text = (title + ' ' + url).toLowerCase()
ScoredText(title, url) ==
  ToLowerCase(DefaultEmpty(title) \o <<" ">> \o DefaultEmpty(url))

\* The scorer without the final Math.min(100, score).
calculateAiRelevanceScoreUnclamped(title, url) ==
  LET text   == ScoredText(title, url)
      strong == StrongLoop(text, 1, 0)
  IN  IF strong.returned
        THEN strong.score
        ELSE WeakLoop(text, 1, MediumLoop(text, 1, strong.score))

calculateAiRelevanceScore(title, url) ==
  LET text   == ScoredText(title, url)
      strong == StrongLoop(text, 1, 0)
  IN  IF strong.returned
        THEN strong.score
        ELSE Min(MaxScore, WeakLoop(text, 1, MediumLoop(text, 1, strong.score)))

isAiRelated(title, url) ==
  calculateAiRelevanceScore(title, url) >= RelevanceThreshold

\* ------------------------------------------------------------------------
\* Scorer inputs: titles are concatenations of vocabulary fragments
\* ------------------------------------------------------------------------

Fragments ==
  { <<"a", "i">>, <<"A", "I">>, <<"d">>, <<"_">>, <<" ">>, <<"é">>,
    <<"m", "l">>, <<"O", "p", "e", "n", "A", "I">>, <<"r", "e", "a", "s", "o", "n", "i", "n", "g">>, <<"l", "l", "m">> }

RECURSIVE Concat(_)
Concat(fs) == IF fs = <<>> THEN <<>> ELSE Head(fs) \o Concat(Tail(fs))

FragmentSeqs == UNION { [1..n -> Fragments] : n \in 0..MaxFrags }

\* Whole headlines: every medium phrase; every medium phrase and the weak
\* phrases; all medium phrases but one.
Headlines ==
  { <<"A", "I", " ", "u", "p", "d", "a", "t", "e", ",", " ", "A", "I", " ", "r", "e", "l", "e", "a", "s", "e", ",", " ", "A", "I", " ", "l", "a", "u", "n", "c", "h", ",", " ", "A", "I", " ", "a", "n", "n", "o", "u", "n", "c", "e", "m", "e", "n", "t", ":", " ", "m", "u", "l", "t", "i", "m", "o", "d", "a", "l", " ", "a", "u", "t", "o", "n", "o", "m", "o", "u", "s", " ", "a", "g", "e", "n", "t", " ", "r", "e", "a", "s", "o", "n", "i", "n", "g">>,
    <<"A", "I", " ", "u", "p", "d", "a", "t", "e", ",", " ", "A", "I", " ", "r", "e", "l", "e", "a", "s", "e", ",", " ", "A", "I", " ", "l", "a", "u", "n", "c", "h", ",", " ", "A", "I", " ", "a", "n", "n", "o", "u", "n", "c", "e", "m", "e", "n", "t", ":", " ", "m", "u", "l", "t", "i", "m", "o", "d", "a", "l", " ", "a", "u", "t", "o", "n", "o", "m", "o", "u", "s", " ", "a", "g", "e", "n", "t", " ", "r", "e", "a", "s", "o", "n", "i", "n", "g", ",", " ", "m", "a", "c", "h", "i", "n", "e", " ", "l", "e", "a", "r", "n", "i", "n", "g", ",", " ", "d", "e", "e", "p", " ", "l", "e", "a", "r", "n", "i", "n", "g">>,
    <<"A", "I", " ", "u", "p", "d", "a", "t", "e", ",", " ", "A", "I", " ", "r", "e", "l", "e", "a", "s", "e", ",", " ", "A", "I", " ", "l", "a", "u", "n", "c", "h", ",", " ", "A", "I", " ", "a", "n", "n", "o", "u", "n", "c", "e", "m", "e", "n", "t", ":", " ", "m", "u", "l", "t", "i", "m", "o", "d", "a", "l", " ", "r", "e", "a", "s", "o", "n", "i", "n", "g">> }

ScoreTitles == { Concat(fs) : fs \in FragmentSeqs } \cup Headlines

ScoreUrls == { NoStr, Some(<<"h", "t", "t", "p", "s", ":", "/", "/", "d", ".", "a", "i", "/", "m", "l">>) }


\* ------------------------------------------------------------------------
\* Item records and the ranker (the body of getAiStories after the fetches)
\* ------------------------------------------------------------------------

\* An optional number: item.score / item.time may be missing from the JSON.
NoNum == [has |-> FALSE, v |-> 0]

Num(n) == [has |-> TRUE, v |-> n]

\* x || 0 on an optional number.
OrZero(x) == IF x.has THEN x.v ELSE 0

\* JavaScript truthiness of an optional number: undefined and 0 are falsy.
TruthyNum(x) == x.has /\ x.v # 0

\* JavaScript truthiness of an optional string: undefined and '' are falsy.
TruthyStr(x) == x.has /\ x.s # <<>>

SecondsPerDay == 86400

StoryCap == 5

TopStoriesLimit == 100

\* What an item fetch of the content API resolves to: a record, or JSON null.
NullItem ==
  [isNull |-> TRUE, id |-> 0, title |-> NoStr, url |-> NoStr, score |-> NoNum, time |-> NoNum]

Item(id, title, url, score, time) ==
  [isNull |-> FALSE, id |-> id, title |-> title, url |-> url, score |-> score, time |-> time]

\* const twentyFourHoursAgo = now - (24 * 60 * 60)
TwentyFourHoursAgo(now) == now - SecondsPerDay

\* const isRecent = !item.time || item.time >= twentyFourHoursAgo
IsRecent(time, now) ==
  (~TruthyNum(time)) \/ time.v >= TwentyFourHoursAgo(now)

\* The .map callback: null for an item without a (truthy) title, else the
\* item extended with relevanceScore and isRecent.
MapStory(item, now) ==
  IF item.isNull \/ ~TruthyStr(item.title)
    THEN [isNull |-> TRUE]
    ELSE [isNull |-> FALSE, id |-> item.id, title |-> item.title, url |-> item.url,
          score |-> item.score, time |-> item.time,
          relevanceScore |-> calculateAiRelevanceScore(item.title, item.url),
          isRecent |-> IsRecent(item.time, now)]

\* The .filter callback.
KeepStory(s) ==
  IF s.isNull THEN FALSE
  ELSE IF s.relevanceScore < RelevanceThreshold THEN FALSE
  ELSE IF ~s.isRecent THEN FALSE
  ELSE TRUE

Abs(n) == IF n < 0 THEN -n ELSE n

\* The comparator with the recency tie-break reversed (older first).
CompareOldestFirst(a, b) ==
  LET relevanceDiff == b.relevanceScore - a.relevanceScore
      scoreDiff     == OrZero(b.score) - OrZero(a.score)
  IN  IF Abs(relevanceDiff) > 5 THEN relevanceDiff
      ELSE IF scoreDiff # 0 THEN scoreDiff
      ELSE OrZero(a.time) - OrZero(b.time)

\* The .sort comparator: negative when a sorts before b.
Compare(a, b) ==
  LET relevanceDiff == b.relevanceScore - a.relevanceScore
      scoreDiff     == OrZero(b.score) - OrZero(a.score)
  IN  IF Abs(relevanceDiff) > 5 THEN relevanceDiff
      ELSE IF scoreDiff # 0 THEN scoreDiff
      ELSE OrZero(b.time) - OrZero(a.time)

\* Array.prototype.sort as the runtime of the script (Node.js, V8) computes
\* it for an array shorter than 64 elements: TimSort with a minimum run
\* length equal to the array length, i.e. the initial run is found (and
\* reversed when strictly descending) and the remaining elements are placed
\* by binary insertion.  The comparator is not a consistent (transitive)
\* ordering, so the algorithm is modelled rather than its specification.

RECURSIVE RunEnd(_, _, _)
\* CountAndMakeRun's loop: the last index (1-based) of the run that starts
\* at index 1, idx being the next index to look at.
RunEnd(arr, idx, isDescending) ==
  IF idx > Len(arr) THEN idx - 1
  ELSE LET order == Compare(arr[idx], arr[idx - 1])
       IN  IF isDescending
             THEN IF order >= 0 THEN idx - 1 ELSE RunEnd(arr, idx + 1, isDescending)
             ELSE IF order < 0 THEN idx - 1 ELSE RunEnd(arr, idx + 1, isDescending)

Reverse(s) == [k \in 1..Len(s) |-> s[Len(s) + 1 - k]]

\* CountAndMakeRun: <<array with the initial run made ascending, run length>>.
CountAndMakeRun(arr) ==
  LET isDescending == Compare(arr[2], arr[1]) < 0
      runLength    == RunEnd(arr, 3, isDescending)
  IN  IF isDescending
        THEN [arr |-> Reverse(SubSeq(arr, 1, runLength)) \o SubSeq(arr, runLength + 1, Len(arr)),
              runLength |-> runLength]
        ELSE [arr |-> arr, runLength |-> runLength]

RECURSIVE BinarySearch(_, _, _, _)
\* The while (left < right) loop of BinaryInsertionSort, 0-based as in V8:
\* the 0-based index at which pivot is inserted.
BinarySearch(arr, pivot, left, right) ==
  IF left >= right THEN left
  ELSE LET mid   == left + ((right - left) \div 2)
           order == Compare(pivot, arr[mid + 1])
       IN  IF order < 0 THEN BinarySearch(arr, pivot, left, mid)
                        ELSE BinarySearch(arr, pivot, mid + 1, right)

RECURSIVE BinaryInsertionSort(_, _)
\* BinaryInsertionSort(low = 0, start, high = length): start is the 1-based
\* index of the next element to insert into the sorted prefix before it.
BinaryInsertionSort(arr, start) ==
  IF start > Len(arr) THEN arr
  ELSE LET pivot == arr[start]
           left  == BinarySearch(arr, pivot, 0, start - 1)
           moved == SubSeq(arr, 1, left) \o <<pivot>> \o SubSeq(arr, left + 1, start - 1)
                      \o SubSeq(arr, start + 1, Len(arr))
       IN  BinaryInsertionSort(moved, start + 1)

Sort(arr) ==
  IF Len(arr) < 2 THEN arr
  ELSE LET run == CountAndMakeRun(arr)
       IN  BinaryInsertionSort(run.arr, run.runLength + 1)

Slice(s, n) == SubSeq(s, 1, Min(n, Len(s)))

\* items.map(...).filter(...): the stories that pass, in input order.
ScoredStories(items, now) ==
  SelectSeq([k \in 1..Len(items) |-> MapStory(items[k], now)], KeepStory)

\* getAiStories from the fetched items on: map, filter, sort, slice(0, 5).
RankStories(items, now) ==
  Slice(Sort(ScoredStories(items, now)), StoryCap)

\* ------------------------------------------------------------------------
\* Links, domains and page metadata
\* ------------------------------------------------------------------------

HnHost == <<"n", "e", "w", "s", ".", "y", "c", "o", "m", "b", "i", "n", "a", "t", "o", "r", ".", "c", "o", "m">>

HnPrefix == <<"h", "t", "t", "p", "s", ":", "/", "/", "n", "e", "w", "s", ".", "y", "c", "o", "m", "b", "i", "n", "a", "t", "o", "r", ".", "c", "o", "m">>

HnItemPrefix == <<"h", "t", "t", "p", "s", ":", "/", "/", "n", "e", "w", "s", ".", "y", "c", "o", "m", "b", "i", "n", "a", "t", "o", "r", ".", "c", "o", "m", "/", "i", "t", "e", "m", "?", "i", "d", "=">>

\* String(id) for the one-digit identifiers of the model.
IdString(id) == << <<"0", "1", "2", "3", "4", "5", "6", "7", "8", "9">>[id + 1] >>

\* toHnUrl: item.url || `https://news.ycombinator.com/item?id=${item.id}`
toHnUrl(item) ==
  IF TruthyStr(item.url) THEN item.url.s ELSE HnItemPrefix \o IdString(item.id)

UrlSchemes == { <<"h", "t", "t", "p", "s", ":", "/", "/">>, <<"h", "t", "t", "p", ":", "/", "/">> }

HostEnd == { "/", "?", "#", ":" }

RECURSIVE TakeHost(_)
\* The characters of s up to the first character that ends the host.
TakeHost(s) ==
  IF s = <<>> \/ Head(s) \in HostEnd THEN <<>> ELSE <<Head(s)>> \o TakeHost(Tail(s))

\* new URL(url): ok = the constructor does not throw (an absolute http(s)
\* URL with a host), hostname = the parsed, lower-cased host.
ParseUrl(s) ==
  LET scheme == { sc \in UrlSchemes : StartsWith(s, sc) }
  IN  IF scheme = {}
        THEN [ok |-> FALSE, hostname |-> <<>>]
        ELSE LET sc == CHOOSE x \in scheme : TRUE
             IN  CHOOSE parsed \in
                   { [ok |-> host # <<>>, hostname |-> ToLowerCase(host)] :
                       host \in {TakeHost(SubSeq(s, Len(sc) + 1, Len(s)))} } : TRUE

RECURSIVE ReplaceFirst(_, _, _)
\* String.prototype.replace with a string pattern: the first occurrence only.
ReplaceFirst(s, pat, rep) ==
  IF Len(s) < Len(pat) THEN s
  ELSE IF SubSeq(s, 1, Len(pat)) = pat
         THEN rep \o SubSeq(s, Len(pat) + 1, Len(s))
         ELSE <<Head(s)>> \o ReplaceFirst(Tail(s), pat, rep)

RECURSIVE ReplaceAll(_, _, _)
\* String.prototype.replace with a /g pattern of literal characters.
ReplaceAll(s, pat, rep) ==
  IF ~Includes(s, pat) THEN s
  ELSE IF SubSeq(s, 1, Len(pat)) = pat
         THEN rep \o ReplaceAll(SubSeq(s, Len(pat) + 1, Len(s)), pat, rep)
         ELSE <<Head(s)>> \o ReplaceAll(Tail(s), pat, rep)

\* getDomain(url) on the optional item.url.
\* (The parsed URL is bound through a singleton set, so that it is computed
\* once wherever the operator is evaluated.)
getDomain(url) ==
  IF ~TruthyStr(url) THEN HnHost
  ELSE CHOOSE domain \in
         { IF parsed.ok THEN ReplaceFirst(parsed.hostname, <<"w", "w", "w", ".">>, <<>>)
                        ELSE HnHost : parsed \in {ParseUrl(url.s)} } : TRUE

\* { image: null, description: null }
NullMetadata == [image |-> NoStr, description |-> NoStr]

DescriptionLimit == 200

DescriptionKept == 197

RECURSIVE TrimStart(_)
TrimStart(s) == IF s # <<>> /\ Head(s) = " " THEN TrimStart(Tail(s)) ELSE s

\* String.prototype.trim (the model's only white space is " ").
Trim(s) == Reverse(TrimStart(Reverse(TrimStart(s))))

\* The clean-up of a matched description: five entities decoded in the
\* code's order, trimmed, cut to 197 characters plus '...' when over 200.
CleanDescription(d) ==
  LET decoded ==
        Trim(ReplaceAll(ReplaceAll(ReplaceAll(ReplaceAll(ReplaceAll(d,
          <<"&", "q", "u", "o", "t", ";">>, <<"\"">>), <<"&", "a", "m", "p", ";">>, <<"&">>), <<"&", "l", "t", ";">>, <<"<">>),
          <<"&", "g", "t", ";">>, <<">">>), <<"&", "#", "3", "9", ";">>, <<"'">>))
  IN  IF Len(decoded) > DescriptionLimit
        THEN SubSeq(decoded, 1, DescriptionKept) \o <<".", ".", ".">>
        ELSE decoded

\* A fetched page, reduced to the content of the five meta tags the regular
\* expressions look for (a missing or empty-content tag does not match).
Page(ogImage, twImage, ogDesc, desc, twDesc) ==
  [ogImage |-> ogImage, twImage |-> twImage, ogDesc |-> ogDesc, desc |-> desc, twDesc |-> twDesc]

\* a || b on two optional match results.
OrElse(a, b) == IF TruthyStr(a) THEN a ELSE b

\* fetchMetadata's extraction from the page text (the try block after
\* await res.text()).
ExtractMetadata(page) ==
  LET image == OrElse(page.ogImage, page.twImage)
      match == OrElse(page.ogDesc, OrElse(page.desc, page.twDesc))
  IN  [image |-> IF TruthyStr(image) THEN image ELSE NoStr,
       description |-> IF TruthyStr(match) THEN Some(CleanDescription(match.s)) ELSE NoStr]

\* How fetchMetadata(url) starts: "skip" returns null metadata at once (no
\* url, or a link to the platform itself), "throw" is fetch() rejecting an
\* unparsable URL inside the try block (caught: null metadata, no request),
\* "request" issues the HTTP request.
MetadataStart(url) ==
  IF url = <<>> \/ StartsWith(url, HnPrefix) THEN "skip"
  ELSE IF ~ParseUrl(url).ok THEN "throw"
  ELSE "request"

\* fetchMetadata without its try / catch: a failure rejects the promise.
MetadataOnFailureRejects == [rejected |-> TRUE, val |-> NullMetadata]

\* How the promise of fetchMetadata settles when its try block throws (the
\* catch returns null metadata) or the response is not ok: it is fulfilled
\* with null metadata, never rejected.
MetadataOnFailure == [rejected |-> FALSE, val |-> NullMetadata]

\* How the promise settles otherwise: fulfilled with the metadata.
MetadataFulfilled(val) == [rejected |-> FALSE, val |-> val]

\* ------------------------------------------------------------------------
\* Message composer
\* ------------------------------------------------------------------------

HeaderBlock == [type |-> "header"]

DividerBlock == [type |-> "divider"]

NoStoriesBlock == [type |-> "section", text |-> "No AI-related stories found today."]

\* The empty-list branch without its push of the "no stories" section.
EmptyBlocksNoSection == <<HeaderBlock, DividerBlock>>

\* The blocks returned for an empty list (header, divider, one section).
EmptyBlocks == <<HeaderBlock, DividerBlock, NoStoriesBlock>>

\* The section block of story number index: title, link, domain label, the
\* description when truthy, the image accessory when truthy.
SectionBlock(story, index, metadata) ==
  [type |-> "section",
   index |-> index,
   title |-> story.title.s,
   url |-> toHnUrl(story),
   domain |-> getDomain(story.url),
   description |-> IF TruthyStr(metadata.description) THEN metadata.description ELSE NoStr,
   accessory |-> IF TruthyStr(metadata.image) THEN metadata.image ELSE NoStr]

RECURSIVE StoryBlocks(_, _, _)
\* stories.forEach: a section per story and a divider between stories.
StoryBlocks(stories, metadataList, index) ==
  IF index > Len(stories) THEN <<>>
  ELSE <<SectionBlock(stories[index], index, metadataList[index])>>
         \o (IF index < Len(stories) THEN <<DividerBlock>> ELSE <<>>)
         \o StoryBlocks(stories, metadataList, index + 1)

\* formatSlackBlocks once the metadata list is known.
formatSlackBlocks(stories, metadataList) ==
  IF Len(stories) = 0 THEN EmptyBlocks
  ELSE <<HeaderBlock, DividerBlock>> \o StoryBlocks(stories, metadataList, 1)

\* ------------------------------------------------------------------------
\* Ranker inputs and the worlds of a run
\* ------------------------------------------------------------------------

\* Item records for the ranker: relevance 0, 10, 15, 20 and 30, popularity
\* missing, 1 and 2, time missing, 0, just too old, on the limit and now.
RankCatalogue ==
  { Item(1, NoStr, NoStr, Num(2), Num(Now)),
    Item(2, Some(<<"s", "a", "i", "d">>), NoStr, Num(2), Num(Now)),
    Item(3, Some(<<"A", "I", " ", "m", "l">>), NoStr, Num(2), Num(Now)),
    Item(4, Some(<<"r", "e", "a", "s", "o", "n", "i", "n", "g">>), NoStr, Num(1), Num(Now)),
    Item(5, Some(<<"m", "l", " ", "r", "e", "a", "s", "o", "n", "i", "n", "g">>), NoStr, NoNum, NoNum),
    Item(6, Some(<<"O", "p", "e", "n", "A", "I">>), NoStr, Num(1), Num(Now - SecondsPerDay - 1)),
    Item(7, Some(<<"l", "l", "m">>), NoStr, Num(2), Num(0)),
    Item(8, Some(<<"r", "e", "a", "s", "o", "n", "i", "n", "g">>), NoStr, Num(1), Num(Now - SecondsPerDay)),
    Item(9, Some(<<"O", "p", "e", "n", "A", "I">>), NoStr, Num(1), Num(Now)) }

RankInputs == UNION { [1..n -> RankCatalogue] : n \in 0..MaxItems }

\* Item records the content API serves in a run: an external link, no link,
\* an irrelevant title, an unparsable link, a second external link.
ServedCatalogue ==
  { Item(1, Some(<<"O", "p", "e", "n", "A", "I">>), Some(<<"h", "t", "t", "p", "s", ":", "/", "/", "w", "w", "w", ".", "d", ".", "a", "i", "/", "m", "l">>), Num(2), Num(Now)),
    Item(2, Some(<<"m", "l", " ", "r", "e", "a", "s", "o", "n", "i", "n", "g">>), NoStr, Num(1), NoNum),
    Item(3, Some(<<"s", "a", "i", "d">>), NoStr, Num(2), Num(Now)),
    Item(4, Some(<<"l", "l", "m">>), Some(<<"d", ".", "a", "i", "/", "m", "l">>), Num(1), Num(Now)),
    Item(5, Some(<<"r", "e", "a", "s", "o", "n", "i", "n", "g">>), Some(<<"h", "t", "t", "p", ":", "/", "/", "d", ".", "a", "i">>), Num(1), Num(Now)) }

\* The top-story lists: up to MaxIds records with distinct identifiers.
ServedLists ==
  { l \in UNION { [1..n -> ServedCatalogue] : n \in 0..MaxIds } :
      \A i \in 1..Len(l) : \A j \in 1..Len(l) : l[i].id = l[j].id => i = j }

LongDescription == [k \in 1..(DescriptionLimit + 1) |-> "d"]

\* Pages an external host answers with.
Pages ==
  { Page(Some(<<"h", "t", "t", "p", "s", ":", "/", "/", "d", ".", "a", "i", "/", "i">>), NoStr, Some(<<" ", "d", " ", "&", "a", "m", "p", ";", " ", "d", " ">>), NoStr, NoStr),
    Page(NoStr, Some(<<"h", "t", "t", "p", "s", ":", "/", "/", "d", ".", "a", "i", "/", "w">>), NoStr, NoStr, Some(LongDescription)),
    Page(NoStr, NoStr, NoStr, NoStr, NoStr) }

\* ------------------------------------------------------------------------
\* State
\* ------------------------------------------------------------------------

VARIABLES
  sPc, sTitle, sUrl, sScore, sRelated,   \* one call of the scorer
  rPc, rItems, rStories,                 \* one call of the ranker
  webhook,     \* SLACK_WEBHOOK_URL is set
  served,      \* the item records the content API serves, in top-story order
  pc,          \* where the main async function is suspended
  slots,       \* per identifier: the state of its item fetch
  stories,     \* the list returned by getAiStories
  meta,        \* per story: the state of its metadata promise
  blocks,      \* the blocks returned by formatSlackBlocks
  calls,       \* HTTP requests issued so far, per kind
  exitCode,    \* -1 while running, then the exit status of the process
  idsFailed,   \* the identifier fetch has rejected
  itemFailed,  \* an item fetch has rejected
  postResult   \* how the webhook POST ended

scoreVars == <<sPc, sTitle, sUrl, sScore, sRelated>>

rankVars == <<rPc, rItems, rStories>>

runVars ==
  <<webhook, served, pc, slots, stories, meta, blocks, calls, exitCode, idsFailed, itemFailed,
    postResult>>

vars == <<scoreVars, rankVars, runVars>>

NoCalls == [ids |-> 0, item |-> 0, meta |-> 0, post |-> 0]

\* The scorer, the ranker and the run before anything is called.
ScoreIdle ==
  /\ sPc = "idle" /\ sTitle = NoStr /\ sUrl = NoStr /\ sScore = 0 /\ sRelated = FALSE

RankIdle ==
  /\ rPc = "idle" /\ rItems = <<>> /\ rStories = <<>>

RunIdle ==
  /\ webhook = FALSE /\ served = <<>> /\ pc = "idle" /\ slots = <<>> /\ stories = <<>>
  /\ meta = <<>> /\ blocks = <<>> /\ calls = NoCalls /\ exitCode = -1
  /\ idsFailed = FALSE /\ itemFailed = FALSE /\ postResult = "none"

\* ------------------------------------------------------------------------
\* Specification ScoreSpec: calculateAiRelevanceScore / isAiRelated
\* ------------------------------------------------------------------------

InitScore ==
  /\ sPc = "input"
  /\ sTitle \in { Some(t) : t \in ScoreTitles } \cup { NoStr }
  /\ sUrl \in ScoreUrls
  /\ sScore = 0
  /\ sRelated = FALSE
  /\ RankIdle
  /\ RunIdle

\* One call of calculateAiRelevanceScore / isAiRelated on the drawn input.
ScoreCall ==
  /\ sPc = "input"
  /\ sPc' = "scored"
  /\ sScore' = calculateAiRelevanceScore(sTitle, sUrl)
  /\ sRelated' = isAiRelated(sTitle, sUrl)
  /\ UNCHANGED <<sTitle, sUrl, rankVars, runVars>>

NextScore == ScoreCall

ScoreSpec == InitScore /\ [][NextScore]_vars

\* ------------------------------------------------------------------------
\* Specification RankSpec: getAiStories on a fetched item list
\* ------------------------------------------------------------------------

InitRank ==
  /\ rPc = "input"
  /\ rItems \in RankInputs
  /\ rStories = <<>>
  /\ ScoreIdle
  /\ RunIdle

\* The map / filter / sort / slice of getAiStories on the drawn items.
RankCall ==
  /\ rPc = "input"
  /\ rPc' = "ranked"
  /\ rStories' = RankStories(rItems, Now)
  /\ UNCHANGED <<rItems, scoreVars, runVars>>

NextRank == RankCall

RankSpec == InitRank /\ [][NextRank]_vars

\* ------------------------------------------------------------------------
\* Specification Spec: one run of the main async function
\* ------------------------------------------------------------------------

Init ==
  /\ webhook \in BOOLEAN
  /\ served \in ServedLists
  /\ pc = "start"
  /\ slots = <<>>
  /\ stories = <<>>
  /\ meta = <<>>
  /\ blocks = <<>>
  /\ calls = NoCalls
  /\ exitCode = -1
  /\ idsFailed = FALSE
  /\ itemFailed = FALSE
  /\ postResult = "none"
  /\ ScoreIdle
  /\ RankIdle

\* main: getAiStories() -> fetchTopStoriesIds(100) issues the identifier
\* request and the run suspends on it.
StartRun ==
  /\ pc = "start"
  /\ pc' = "ids"
  /\ calls' = [calls EXCEPT !.ids = @ + 1]
  /\ UNCHANGED <<scoreVars, rankVars, webhook, served, idsFailed, slots, stories, meta,
               blocks, exitCode, itemFailed, postResult>>

\* catch (error) { console.error('Fatal error:', error); process.exit(1) }
Fatal ==
  /\ pc' = "fatal"
  /\ exitCode' = 1

\* The identifier request fails (network error, body not JSON): the
\* rejection reaches main's catch.
IdsFail ==
  /\ pc = "ids"
  /\ idsFailed' = TRUE
  /\ Fatal
  /\ UNCHANGED <<scoreVars, rankVars, webhook, served, slots, stories, meta, blocks, calls,
               itemFailed, postResult>>

\* The identifier request resolves: ids.slice(0, limit), then
\* ids.map(fetchItem) issues one item request per identifier.
IdsOk ==
  /\ pc = "ids"
  /\ pc' = "items"
  /\ LET ids == Slice(served, TopStoriesLimit)
     IN  /\ slots' = [k \in 1..Len(ids) |-> [st |-> "pending", val |-> NullItem]]
         /\ calls' = [calls EXCEPT !.item = @ + Len(ids)]
  /\ UNCHANGED <<scoreVars, rankVars, webhook, served, idsFailed, stories, meta, blocks,
               exitCode, itemFailed, postResult>>

\* An item request resolves with the record, or with JSON null.
ItemOk(k) ==
  /\ pc = "items"
  /\ k \in 1..Len(slots)
  /\ slots[k].st = "pending"
  /\ \E v \in {served[k], NullItem} :
       slots' = [slots EXCEPT ![k] = [st |-> "fulfilled", val |-> v]]
  /\ UNCHANGED <<scoreVars, rankVars, webhook, served, idsFailed, pc, stories, meta, blocks,
               calls, exitCode, itemFailed, postResult>>

\* An item request rejects (network error, body not JSON): fetchItem has no
\* handler, Promise.all rejects, getAiStories rejects, main's catch exits.
ItemFail(k) ==
  /\ pc = "items"
  /\ k \in 1..Len(slots)
  /\ slots[k].st = "pending"
  /\ slots' = [slots EXCEPT ![k] = [st |-> "rejected", val |-> NullItem]]
  /\ itemFailed' = TRUE
  /\ Fatal
  /\ UNCHANGED <<scoreVars, rankVars, webhook, served, idsFailed, stories, meta, blocks,
               calls, postResult>>

\* The metadata promise of one story as formatSlackBlocks creates it.
MetaSlot(story) ==
  LET start == MetadataStart(toHnUrl(story))
      settled == IF start = "skip" THEN MetadataFulfilled(NullMetadata) ELSE MetadataOnFailure
  IN  IF start = "request"
        THEN [st |-> "fetching", how |-> "request", rejected |-> FALSE, val |-> NullMetadata]
        ELSE [st |-> "done", how |-> start, rejected |-> settled.rejected, val |-> settled.val]

\* postToSlack(blocks) up to its first suspension: without the webhook it
\* logs and returns (main logs 'Done!' and the process ends normally),
\* otherwise it issues the POST.
PostToSlackStart ==
  IF ~webhook
    THEN /\ pc' = "done"
         /\ exitCode' = 0
         /\ calls' = calls
    ELSE /\ pc' = "posting"
         /\ exitCode' = exitCode
         /\ calls' = [calls EXCEPT !.post = @ + 1]

\* Promise.all over the item requests resolves: getAiStories ranks and
\* returns, main calls formatSlackBlocks.  An empty list returns the
\* "no stories" blocks at once and main goes on to postToSlack; otherwise one
\* metadata promise per story is created (a request where one is needed).
ItemsDone ==
  /\ pc = "items"
  /\ \A k \in 1..Len(slots) : slots[k].st = "fulfilled"
  /\ LET ranked == RankStories([k \in 1..Len(slots) |-> slots[k].val], Now)
     IN  /\ stories' = ranked
         /\ IF Len(ranked) = 0
              THEN /\ blocks' = formatSlackBlocks(ranked, <<>>)
                   /\ meta' = <<>>
                   /\ PostToSlackStart
              ELSE /\ meta' = [k \in 1..Len(ranked) |-> MetaSlot(ranked[k])]
                   /\ calls' = [calls EXCEPT !.meta =
                        @ + Cardinality({k \in 1..Len(ranked) :
                                           MetadataStart(toHnUrl(ranked[k])) = "request"})]
                   /\ pc' = "enrich"
                   /\ UNCHANGED <<blocks, exitCode>>
  /\ UNCHANGED <<scoreVars, rankVars, webhook, served, idsFailed, slots, itemFailed, postResult>>

\* The promise of story k settles.
MetaSettle(k, how, settled) ==
  /\ meta' = [meta EXCEPT ![k] = [st |-> "done", how |-> how,
                                  rejected |-> settled.rejected, val |-> settled.val]]
  /\ UNCHANGED <<scoreVars, rankVars, webhook, served, idsFailed, pc, slots, stories, blocks,
               calls, exitCode, itemFailed, postResult>>

\* The request of story k fails before a response: a network error, or the
\* 3 second abort.  fetch rejects inside the try block; the catch returns
\* null metadata.
MetaFetchFail(k) ==
  /\ pc = "enrich"
  /\ k \in 1..Len(meta)
  /\ meta[k].st = "fetching"
  /\ \E how \in {"neterr", "abort"} : MetaSettle(k, how, MetadataOnFailure)

\* The 3 second timer of fetchMetadata fires while the request of story k is
\* still pending: controller.abort() rejects the fetch, the catch returns
\* null metadata.  (The timer step of MetaFetchFail.)
MetaAbort(k) ==
  /\ pc = "enrich"
  /\ k \in 1..Len(meta)
  /\ meta[k].st = "fetching"
  /\ MetaSettle(k, "abort", MetadataOnFailure)

\* The response of story k arrives with a non-ok status.
MetaNotOk(k) ==
  /\ pc = "enrich"
  /\ k \in 1..Len(meta)
  /\ meta[k].st = "fetching"
  /\ MetaSettle(k, "notok", MetadataOnFailure)

\* The response of story k arrives ok: the abort timer is cleared and the
\* body is awaited.
MetaResponse(k) ==
  /\ pc = "enrich"
  /\ k \in 1..Len(meta)
  /\ meta[k].st = "fetching"
  /\ meta' = [meta EXCEPT ![k].st = "reading"]
  /\ UNCHANGED <<scoreVars, rankVars, webhook, served, idsFailed, pc, slots, stories, blocks,
               calls, exitCode, itemFailed, postResult>>

\* The body of story k arrives: the meta tags are extracted.
MetaBody(k) ==
  /\ pc = "enrich"
  /\ k \in 1..Len(meta)
  /\ meta[k].st = "reading"
  /\ \E page \in Pages : MetaSettle(k, "ok", MetadataFulfilled(ExtractMetadata(page)))

\* Reading the body of story k fails (res.text() rejects): caught.
MetaBodyFail(k) ==
  /\ pc = "enrich"
  /\ k \in 1..Len(meta)
  /\ meta[k].st = "reading"
  /\ MetaSettle(k, "bodyfail", MetadataOnFailure)

\* Promise.race without its timer: nothing settles the slot of a story whose
\* body never arrives.
MetaRaceTimeoutNever(k) ==
  /\ FALSE
  /\ UNCHANGED vars

\* The 5 second timer of Promise.race wins while the body of story k is
\* still being read (before a response arrives the 3 second abort fires
\* first).
MetaRaceTimeout(k) ==
  /\ pc = "enrich"
  /\ k \in 1..Len(meta)
  /\ meta[k].st = "reading"
  /\ MetaSettle(k, "race", MetadataFulfilled(NullMetadata))

\* await Promise.all(metadataPromises) inside try / catch: the list of the
\* fulfilled values, or null metadata for every story once a promise has
\* rejected.
MetadataList(slotsOfMeta) ==
  IF \E k \in 1..Len(slotsOfMeta) : slotsOfMeta[k].rejected
    THEN [k \in 1..Len(slotsOfMeta) |-> NullMetadata]
    ELSE [k \in 1..Len(slotsOfMeta) |-> slotsOfMeta[k].val]

\* Promise.all over the metadata promises settles (all fulfilled, or one
\* rejected): the blocks are built and main goes on to postToSlack.
Compose ==
  /\ pc = "enrich"
  /\ \/ \A k \in 1..Len(meta) : meta[k].st = "done"
     \/ \E k \in 1..Len(meta) : meta[k].rejected
  /\ blocks' = formatSlackBlocks(stories, MetadataList(meta))
  /\ PostToSlackStart
  /\ UNCHANGED <<scoreVars, rankVars, webhook, served, idsFailed, slots, stories, meta,
               itemFailed, postResult>>

\* The POST resolves with an ok status: logged, main logs 'Done!'.
PostOk ==
  /\ pc = "posting"
  /\ postResult' = "ok"
  /\ pc' = "done"
  /\ exitCode' = 0
  /\ UNCHANGED <<scoreVars, rankVars, webhook, served, idsFailed, slots, stories, meta,
               blocks, calls, itemFailed>>

\* The non-ok branch with a retry: the POST is issued again (up to three
\* times) before the error body is read.
PostNotOkRetry ==
  /\ pc = "posting"
  /\ postResult' = "notok"
  /\ IF calls.post < 3
       THEN /\ pc' = "posting"
            /\ calls' = [calls EXCEPT !.post = @ + 1]
       ELSE /\ pc' = "errorText"
            /\ calls' = calls
  /\ UNCHANGED <<scoreVars, rankVars, webhook, served, idsFailed, slots, stories, meta,
               blocks, exitCode, itemFailed>>

\* The POST resolves with a non-ok status: the error body is awaited.
PostNotOk ==
  /\ pc = "posting"
  /\ postResult' = "notok"
  /\ pc' = "errorText"
  /\ UNCHANGED <<scoreVars, rankVars, webhook, served, idsFailed, slots, stories, meta,
               blocks, calls, exitCode, itemFailed>>

\* The error body arrives: status, body and payload are logged, postToSlack
\* returns normally and main logs 'Done!'.
PostErrorLogged ==
  /\ pc = "errorText"
  /\ pc' = "done"
  /\ exitCode' = 0
  /\ UNCHANGED <<scoreVars, rankVars, webhook, served, idsFailed, slots, stories, meta,
               blocks, calls, itemFailed, postResult>>

\* Reading the error body rejects: caught in postToSlack, rethrown, fatal.
PostErrorTextFail ==
  /\ pc = "errorText"
  /\ Fatal
  /\ UNCHANGED <<scoreVars, rankVars, webhook, served, idsFailed, slots, stories, meta,
               blocks, calls, itemFailed, postResult>>

\* The POST rejects (network exception): logged, rethrown, fatal.
PostNetworkError ==
  /\ pc = "posting"
  /\ postResult' = "neterr"
  /\ Fatal
  /\ UNCHANGED <<scoreVars, rankVars, webhook, served, idsFailed, slots, stories, meta,
               blocks, calls, itemFailed>>

Next ==
  \/ StartRun
  \/ IdsFail
  \/ IdsOk
  \/ \E k \in 1..MaxIds : ItemOk(k)
  \/ \E k \in 1..MaxIds : ItemFail(k)
  \/ ItemsDone
  \/ \E k \in 1..StoryCap : MetaFetchFail(k)
  \/ \E k \in 1..StoryCap : MetaNotOk(k)
  \/ \E k \in 1..StoryCap : MetaResponse(k)
  \/ \E k \in 1..StoryCap : MetaBody(k)
  \/ \E k \in 1..StoryCap : MetaBodyFail(k)
  \/ \E k \in 1..StoryCap : MetaRaceTimeout(k)
  \/ Compose
  \/ PostOk
  \/ PostNotOk
  \/ PostErrorLogged
  \/ PostErrorTextFail
  \/ PostNetworkError

Spec == Init /\ [][Next]_vars

\* The run under the scheduling the runtime guarantees: a timer that stays
\* armed fires (the 3 second abort of a pending request, the 5 second timer
\* of Promise.race), and the continuation of a settled Promise.all runs.
\* Nothing is assumed of the network: a request or a body read may never
\* settle.
Fairness ==
  /\ \A k \in 1..StoryCap : WF_vars(MetaAbort(k))
  /\ \A k \in 1..StoryCap : WF_vars(MetaRaceTimeout(k))
  /\ WF_vars(Compose)

FairSpec == Init /\ [][Next]_vars /\ Fairness

\* ------------------------------------------------------------------------
\* Properties
\* ------------------------------------------------------------------------

\* The popularity and time keys of the composite ordering (missing = 0).
Popularity(x) == IF x.score.has THEN x.score.v ELSE 0

TimeKey(x) == IF x.time.has THEN x.time.v ELSE 0

\* The composite ordering strictly prefers x over y: relevance first, a
\* difference of at most 5 being a tie, then popularity, then time (newer first).
Prefers(x, y) ==
  IF Abs(x.relevanceScore - y.relevanceScore) > 5 THEN x.relevanceScore > y.relevanceScore
  ELSE IF Popularity(x) # Popularity(y) THEN Popularity(x) > Popularity(y)
  ELSE TimeKey(x) > TimeKey(y)

StoryIds(ss) == [k \in 1..Len(ss) |-> ss[k].id]

\* C1: the list returned by getAiStories is non-increasing under the
\* composite ordering: at no pair of adjacent positions i, i+1 does the
\* ordering prefer the later story over the earlier one.
C1_AdjacentNonIncreasing ==
  rPc = "ranked" =>
    \A i \in 1..(Len(rStories) - 1) : ~Prefers(rStories[i + 1], rStories[i])

\* C1 witness: three stories were returned, the sort changed their order,
\* and two neighbours tie on relevance and popularity and differ in time.
C1_Witness ==
  /\ rPc = "ranked"
  /\ Len(rStories) = 3
  /\ StoryIds(rStories) # StoryIds(ScoredStories(rItems, Now))
  /\ \E i \in 1..2 :
       /\ rStories[i].relevanceScore = rStories[i + 1].relevanceScore
       /\ Popularity(rStories[i]) = Popularity(rStories[i + 1])
       /\ TimeKey(rStories[i]) > TimeKey(rStories[i + 1])

\* C2: of any two returned stories whose relevance scores differ by more
\* than 5, the one with the higher relevance score comes earlier.
C2_RelevanceDominates ==
  rPc = "ranked" =>
    \A i \in 1..Len(rStories) : \A j \in 1..Len(rStories) :
      (i < j /\ Abs(rStories[i].relevanceScore - rStories[j].relevanceScore) > 5)
        => rStories[i].relevanceScore > rStories[j].relevanceScore

\* C3: an item whose time is present and smaller than now - 86400 is absent
\* from the returned list, and every returned story has a title, a
\* relevance score of at least 10 and isRecent = true.
C3_OldItemsExcluded ==
  rPc = "ranked" =>
    /\ \A k \in 1..Len(rItems) :
         (rItems[k].time.has /\ rItems[k].time.v < Now - SecondsPerDay)
           => \A j \in 1..Len(rStories) : rStories[j].id # rItems[k].id
    /\ \A j \in 1..Len(rStories) :
         /\ rStories[j].title.has /\ rStories[j].title.s # <<>>
         /\ rStories[j].relevanceScore >= 10
         /\ rStories[j].isRecent

\* C4: with the webhook configuration value missing the run issues no
\* network call at all: no identifier, item or metadata request, no POST.
C4_NoNetworkWithoutWebhook ==
  ~webhook => calls = NoCalls

\* C5: the failure of one item fetch is not fatal to the run (the item is
\* dropped and the run goes on to compose and publish).
C5_ItemFailureNotFatal ==
  itemFailed => (pc # "fatal" /\ exitCode # 1)

\* C6: a failed webhook POST (non-success response or network exception)
\* never leaves the run in its success state: the process exits non-zero.
C6_PostFailureSurfaced ==
  (postResult \in {"notok", "neterr"} /\ pc \in {"done", "fatal"})
    => (pc = "fatal" /\ exitCode = 1)

\* The ways a metadata fetch fails: network error, abort on the timeout,
\* non-OK response, failure while reading the body.
FailedHow == {"neterr", "abort", "notok", "bodyfail"}

\* formatSlackBlocks has returned story blocks.
Composed ==
  pc \in {"posting", "errorText", "done", "fatal"} /\ Len(stories) > 0

\* The section block of story k in a composed message.
SectionOf(k) == blocks[2 * k + 1]

\* The state part of C7.
EnrichmentFailureYieldsNull ==
  /\ \A k \in 1..Len(meta) :
       (meta[k].st = "done" /\ meta[k].how \in FailedHow)
         => (meta[k].val = [image |-> NoStr, description |-> NoStr] /\ ~meta[k].rejected)
  /\ Composed =>
       \A k \in 1..Len(stories) :
         /\ meta[k].how \in FailedHow
              => (SectionOf(k).description = NoStr /\ SectionOf(k).accessory = NoStr)
         /\ meta[k].how = "ok"
              => /\ SectionOf(k).accessory = meta[k].val.image
                 /\ SectionOf(k).description =
                      (IF meta[k].val.description.has /\ meta[k].val.description.s # <<>>
                         THEN meta[k].val.description ELSE NoStr)
  /\ (pc = "fatal" /\ \E k \in 1..Len(meta) : meta[k].how \in FailedHow)
       => (postResult \in {"notok", "neterr"} /\ calls.post = 1)

\* The step part of C7: the enrichment stage is left only for the publish
\* step, with the POST issued when the webhook is set.
EnrichmentLeadsToPublish ==
  (pc = "enrich" /\ pc' # "enrich") =>
    /\ pc' = (IF webhook THEN "posting" ELSE "done")
    /\ calls'.post = (IF webhook THEN 1 ELSE 0)
    /\ Len(blocks') = 2 * Len(stories)  + 1

\* C7: a failed metadata enrichment settles to {image: null, description:
\* null} without rejecting; in the composed message the failed story has
\* neither description nor image while every story whose enrichment
\* succeeded keeps the image and description extracted for it; and the run
\* is not aborted: the enrichment stage is only ever left for the publish
\* step, and a run with a failed enrichment is fatal only through the POST.
C7_EnrichmentFailureIsolated ==
  []EnrichmentFailureYieldsNull /\ [][EnrichmentLeadsToPublish]_vars

\* C7 witness: the POST has been issued for two stories, the first enriched
\* with an image, the second having failed with a non-OK response.
C7_Witness ==
  /\ pc = "posting"
  /\ Len(stories) = 2
  /\ meta[1].how = "ok" /\ meta[1].val.image.has
  /\ meta[2].how = "notok"
  /\ SectionOf(1).accessory.has
  /\ ~SectionOf(2).accessory.has

\* getAiStories has returned in this run.
GetAiStoriesReturned ==
  \/ pc \in {"enrich", "posting", "errorText", "done"}
  \/ pc = "fatal" /\ ~idsFailed /\ ~itemFailed

\* A fetched item passes the filter: titled, relevant, recent.
Passes(item) ==
  /\ ~item.isNull
  /\ item.title.has /\ item.title.s # <<>>
  /\ calculateAiRelevanceScore(item.title, item.url) >= 10
  /\ ((~item.time.has) \/ item.time.v = 0 \/ item.time.v >= Now - SecondsPerDay)

\* The fetched values that pass the filter.
PassingValues == { v \in ServedCatalogue \cup {NullItem} : Passes(v) }

\* C8: when the candidate input is empty or no item passes the filter,
\* getAiStories returns the empty list, the message is exactly header,
\* divider and the "no stories" section, no metadata request is issued, and
\* the run goes on to publish (the POST is issued when the webhook is set;
\* the run is fatal only through the POST).
C8_EmptyInputNoStoriesMessage ==
  (GetAiStoriesReturned /\ \A k \in 1..Len(slots) : slots[k].val \notin PassingValues) =>
    /\ stories = <<>>
    /\ blocks = <<[type |-> "header"], [type |-> "divider"],
                  [type |-> "section", text |-> "No AI-related stories found today."]>>
    /\ meta = <<>>
    /\ calls.meta = 0
    /\ pc \in {"posting", "errorText", "done", "fatal"}
    /\ webhook => calls.post = 1
    /\ pc = "fatal" => postResult \in {"notok", "neterr"}

\* C8 witness: two items were fetched, none passes the filter, and the
\* "no stories" message has been posted successfully.
C8_Witness ==
  /\ pc = "done"
  /\ postResult = "ok"
  /\ Len(slots) = 2
  /\ \A k \in 1..Len(slots) : slots[k].val \notin PassingValues
  /\ Len(blocks) = 3

\* The lower-cased text contains at least one strong-signal phrase.
AnyStrong(text) == \E k \in 1..Len(strongSignals) : Includes(text, strongSignals[k])

NumMedium(text) ==
  Cardinality({k \in 1..Len(mediumSignals) : Includes(text, mediumSignals[k])})

\* The weak phrases other than 'ai' that the text contains.
NumOtherWeak(text) ==
  Cardinality({k \in 2..Len(weakSignals) : Includes(text, weakSignals[k])})

\* C9: when the lower-cased concatenation of title and url contains a
\* strong-signal phrase the score is exactly 30 and isAiRelated is true,
\* whatever other strong, medium or weak phrases the text contains.
C9_StrongSignalScoresThirty ==
  (sPc = "scored" /\ AnyStrong(ScoredText(sTitle, sUrl)))
    => (sScore = 30 /\ sRelated)

\* C9 witness: a scored text with two strong phrases, a medium phrase and a
\* weak phrase.
C9_Witness ==
  /\ sPc = "scored"
  /\ Includes(ScoredText(sTitle, sUrl), <<"o", "p", "e", "n", "a", "i">>)
  /\ Includes(ScoredText(sTitle, sUrl), <<"l", "l", "m">>)
  /\ Includes(ScoredText(sTitle, sUrl), <<"r", "e", "a", "s", "o", "n", "i", "n", "g">>)
  /\ Includes(ScoredText(sTitle, sUrl), <<"m", "l">>)
  /\ sScore = 30

\* Letters, digits and the underscore: the characters of a word.
Letters == (RegexWordChars \ {"_", "0", "1", "2", "3", "4", "5", "6", "7", "8", "9"}) \cup {"é"}

LetterDigitUnderscore == Letters \cup {"_", "0", "1", "2", "3", "4", "5", "6", "7", "8", "9"}

\* Every occurrence of the letters 'ai' in text is part of a longer word: a
\* letter, digit or underscore stands immediately before or after it.
AiOnlyInsideWords(text) ==
  \A p \in 1..(Len(text) - 1) :
    (text[p] = "a" /\ text[p + 1] = "i") =>
      \/ p > 1 /\ text[p - 1] \in LetterDigitUnderscore
      \/ p + 2 <= Len(text) /\ text[p + 2] \in LetterDigitUnderscore

\* C10: for a text in which every occurrence of 'ai' is part of a longer
\* word the weak 'ai' signal contributes nothing: the score is 30 on a
\* strong phrase and otherwise min(100, 15 per medium phrase + 5 per weak
\* phrase other than 'ai').
C10_AiInsideWordScoresNothing ==
  (sPc = "scored" /\ AiOnlyInsideWords(ScoredText(sTitle, sUrl))) =>
    sScore = (IF AnyStrong(ScoredText(sTitle, sUrl)) THEN 30
              ELSE Min(100, 15 * NumMedium(ScoredText(sTitle, sUrl))
                              + 5 * NumOtherWeak(ScoredText(sTitle, sUrl))))

\* The token 'ai' stands alone somewhere in text: an occurrence of the two
\* letters with no letter, digit or underscore immediately before or after.
AiStandalone(text) ==
  \E p \in 1..(Len(text) - 1) :
    /\ text[p] = "a" /\ text[p + 1] = "i"
    /\ p > 1 => text[p - 1] \notin LetterDigitUnderscore
    /\ p + 2 <= Len(text) => text[p + 2] \notin LetterDigitUnderscore

\* The standalone 'ai' is the only signal of the text.
OnlyAiMatches(text) ==
  /\ AiStandalone(text)
  /\ ~AnyStrong(text)
  /\ NumMedium(text) = 0
  /\ NumOtherWeak(text) = 0

\* C11: a text whose only matching signal is the standalone token 'ai'
\* scores exactly 5 and is not AI-related; a text with a standalone 'ai' and
\* no strong phrase is AI-related only when a medium phrase or another weak
\* phrase matches as well.
C11_AiAloneScoresFive ==
  sPc = "scored" =>
    /\ OnlyAiMatches(ScoredText(sTitle, sUrl)) => (sScore = 5 /\ ~sRelated)
    /\ (AiStandalone(ScoredText(sTitle, sUrl))
          /\ ~AnyStrong(ScoredText(sTitle, sUrl)) /\ sRelated)
         => NumMedium(ScoredText(sTitle, sUrl))
              + NumOtherWeak(ScoredText(sTitle, sUrl)) >= 1

\* C11 witness: a scored title holding 'AI' between separators and no other
\* signal, without a url.
C11_Witness ==
  /\ sPc = "scored"
  /\ ~sUrl.has
  /\ Len(sTitle.s) > 2
  /\ OnlyAiMatches(ScoredText(sTitle, sUrl))
  /\ sScore = 5
  /\ ~sRelated

\* The story has no url, or a url that new URL() does not accept.
UrlAbsentOrUnparsable(story) ==
  ~story.url.has \/ ~ParseUrl(story.url.s).ok

\* C12: in a composed message the block of a story whose url is absent or
\* cannot be parsed carries the domain label 'news.ycombinator.com' and, as
\* its link target, the thread permalink built from the story's id.
C12_FallbackDomainAndLink ==
  Composed =>
    \A k \in 1..Len(stories) :
      UrlAbsentOrUnparsable(stories[k]) =>
        /\ SectionOf(k).domain = HnHost
        /\ SectionOf(k).url = HnItemPrefix \o IdString(stories[k].id)

\* C13: in a run at most one POST to the webhook is issued, and once the
\* POST has settled (ok, non-ok status or network exception) no step issues
\* another one.
C13_AtMostOnePost ==
  /\ [](calls.post <= 1)
  /\ [][postResult # "none" => calls'.post = calls.post]_vars

\* C13 witness: a run that ended after its one POST was answered with a
\* non-ok status.
C13_Witness ==
  /\ pc = "done"
  /\ postResult = "notok"
  /\ calls.post = 1

\* The slots settled by a timer hold null metadata and did not reject.
TimedOutSlotsNull ==
  \A k \in 1..Len(meta) :
    (meta[k].st = "done" /\ meta[k].how \in {"abort", "race"})
      => (meta[k].val = [image |-> NoStr, description |-> NoStr] /\ ~meta[k].rejected)

\* formatSlackBlocks has returned for a non-empty list: every slot is
\* resolved and the message holds one section block per story.
EnrichmentReturned ==
  /\ pc # "enrich"
  /\ \A k \in 1..Len(meta) : meta[k].st = "done"
  /\ Len(blocks) = 2 * Len(stories) + 1
  /\ \A k \in 1..Len(stories) : SectionOf(k).type = "section" /\ SectionOf(k).index = k

\* C14: once the enrichment of a non-empty ranked list has started it
\* completes, whatever the network does: every slot is eventually resolved
\* (a slot settled by a timer to null metadata) and formatSlackBlocks
\* returns one section block per story, even when a request or a body read
\* never settles.
C14_EnrichmentCompletes ==
  /\ []TimedOutSlotsNull
  /\ (pc = "enrich") ~> EnrichmentReturned

\* C14 witness: a composed message of two stories, the body of the first
\* never arrived (settled by the 5 second timer) and the request of the
\* second never answered (settled by the 3 second abort).
C14_Witness ==
  /\ pc \in {"posting", "done"}
  /\ Len(stories) = 2
  /\ meta[1].how = "race"
  /\ meta[2].how = "abort"
  /\ EnrichmentReturned

\* The weak signals the text matches: the token 'ai' under the word-boundary
\* test, the other weak phrases as substrings.
NumWeak(text) ==
  NumOtherWeak(text) + (IF AiRegexTest(text) THEN 1 ELSE 0)

\* The points the tiers add up to before the clamp.
AccumulatedPoints(text) ==
  IF AnyStrong(text) THEN 30
  ELSE 15 * NumMedium(text) + 5 * NumWeak(text)

\* C15: the score is an integer between 0 and 100 and equals min(100,
\* accumulated points); without a strong phrase it is min(100, 15 per
\* matching medium phrase + 5 per matching weak signal), so a sum above 100
\* is returned as 100.
C15_ScoreClampedToHundred ==
  sPc = "scored" =>
    /\ sScore \in 0..100
    /\ sScore = Min(100, AccumulatedPoints(ScoredText(sTitle, sUrl)))

\* C15 witness: a scored headline with all seven medium phrases and a weak
\* signal, whose points add up to more than 100.
C15_Witness ==
  /\ sPc = "scored"
  /\ ~AnyStrong(ScoredText(sTitle, sUrl))
  /\ NumMedium(ScoredText(sTitle, sUrl)) = 7
  /\ NumWeak(ScoredText(sTitle, sUrl)) >= 1
  /\ AccumulatedPoints(ScoredText(sTitle, sUrl)) > 100
  /\ sScore = 100

=============================================================================
